---- MODULE Spec2Model ----
(***************************************************************************)
(* Market-data client of rs-etrade (src/market.rs): Api::quote and         *)
(* Api::option_expire_dates, the serde type tree they decode into and the  *)
(* custom after-hours-flag deserializer.                                   *)
(*                                                                         *)
(* Text is a sequence of one-character strings, so that to_lowercase and   *)
(* join act on characters.  A JSON value (serde_json::Value) is a record   *)
(* tagged by t: null, bool, num, str, arr, obj; an object is a function    *)
(* from its keys to values.                                                *)
(***************************************************************************)
EXTENDS Integers, Sequences, FiniteSets, TLC

(* ------------------------------ bounds -------------------------------- *)
\* longest symbol list a caller passes to quote
MaxLen == 27

(* --------------------------- JSON values ------------------------------ *)
JNull == [t |-> "null"]
JBool(b) == [t |-> "bool", b |-> b]
\* a JSON number; float tells 100.0 from 100
JInt(n) == [t |-> "num", n |-> n, float |-> FALSE]
JFloat(n) == [t |-> "num", n |-> n, float |-> TRUE]
JStr(s) == [t |-> "str", s |-> s]
JArr(a) == [t |-> "arr", a |-> a]
JObj(o) == [t |-> "obj", o |-> o]
EmptyObj == JObj(<<>>)

\* serde_json::Value::get(key): Some(value) on an object holding the key,
\* None on anything else
HasKey(val, key) == val.t = "obj" /\ key \in DOMAIN val.o

(* ------------------------- Result and Option -------------------------- *)
Ok(v) == [ok |-> TRUE, v |-> v]
Err(e) == [ok |-> FALSE, err |-> e]
None == [some |-> FALSE]
Some(v) == [some |-> TRUE, v |-> v]

(* ------------------------------ text ---------------------------------- *)
Lowers == <<"a","b","c","d","e","f","g","h","i","j","k","l","m",
            "n","o","p","q","r","s","t","u","v","w","x","y","z">>
Uppers == <<"A","B","C","D","E","F","G","H","I","J","K","L","M",
            "N","O","P","Q","R","S","T","U","V","W","X","Y","Z">>

\* char::to_lowercase on the characters of the model's alphabet
to_lowercase_char(c) ==
    IF \E i \in 1..Len(Uppers) : Uppers[i] = c
    THEN Lowers[CHOOSE i \in 1..Len(Uppers) : Uppers[i] = c]
    ELSE c

\* the string compared as it came
to_lowercase_skipped(s) == s

\* str::to_lowercase
to_lowercase(s) == [i \in 1..Len(s) |-> to_lowercase_char(s[i])]

(* ----------------------- deserialize_ah_flag -------------------------- *)
W_true == <<"t","r","u","e">>
W_1 == <<"1">>
W_yes == <<"y","e","s">>
W_false == <<"f","a","l","s","e">>
W_0 == <<"0">>
W_no == <<"n","o">>

deserialize_ah_flag(value) ==
    CASE value.t = "bool" -> Ok(Some(value.b))
      [] value.t = "str" ->
            LET l == to_lowercase(value.s) IN
            IF l \in {W_true, W_1, W_yes} THEN Ok(Some(TRUE))
            ELSE IF l \in {W_false, W_0, W_no} THEN Ok(Some(FALSE))
            ELSE Err([msg |-> "Invalid boolean string", raw |-> value.s])
      [] value.t = "null" -> Ok(None)
      [] OTHER -> Err([msg |-> "Expected boolean or string"])

(* ------------------- serde attributes and types ----------------------- *)
T_f64 == [k |-> "f64"]
T_i64 == [k |-> "i64"]
T_i32 == [k |-> "i32"]
T_String == [k |-> "String"]
T_bool == [k |-> "bool"]
Opt(ty) == [k |-> "Option", of |-> ty]
Vec(ty) == [k |-> "Vec", of |-> ty]
Struct(name) == [k |-> "Struct", name |-> name]

\* A struct field: w is the Rust identifier split at its underscores, name
\* the identifier itself,
\* rename the #[serde(rename = ...)] attribute ("" when absent), with the
\* #[serde(deserialize_with = ...)] attribute ("" when absent).
\* the identifier as written in the source
RECURSIVE RustName(_)
RustName(w) ==
    IF Len(w) = 1 THEN w[1] ELSE w[1] \o "_" \o RustName(Tail(w))

F(w, ty) == [w |-> w, name |-> RustName(w), rename |-> "", ty |-> ty, with |-> ""]
R(w, rename, ty) ==
    [w |-> w, name |-> RustName(w), rename |-> rename, ty |-> ty, with |-> ""]
W(w, ty, with) ==
    [w |-> w, name |-> RustName(w), rename |-> "", ty |-> ty, with |-> with]

\* first character upper-cased (to_ascii_uppercase leaves digits alone)
Capitalize ==
    "time" :> "Time" @@ "utc" :> "Utc" @@ "status" :> "Status" @@
    "flag" :> "Flag" @@ "message" :> "Message" @@ "zone" :> "Zone" @@
    "mini" :> "Mini" @@ "options" :> "Options" @@ "trade" :> "Trade" @@
    "name" :> "Name" @@ "close" :> "Close" @@ "volume" :> "Volume" @@
    "percentage" :> "Percentage" @@ "to" :> "To" @@
    "expiration" :> "Expiration" @@ "interest" :> "Interest" @@
    "style" :> "Style" @@ "underlier" :> "Underlier" @@
    "value" :> "Value" @@ "premium" :> "Premium" @@
    "multiplier" :> "Multiplier" @@ "size" :> "Size" @@ "date" :> "Date" @@
    "dates" :> "Dates" @@ "data" :> "Data" @@
    "volatility" :> "Volatility" @@ "type" :> "Type" @@
    "earnings" :> "Earnings" @@ "description" :> "Description" @@
    "day" :> "Day" @@ "previous" :> "Previous" @@ "bid" :> "Bid" @@
    "ask" :> "Ask" @@ "price" :> "Price" @@ "key" :> "Key" @@
    "greeks" :> "Greeks" @@ "dividend" :> "Dividend" @@
    "months" :> "Months" @@ "month" :> "Month" @@ "fee" :> "Fee" @@
    "fund" :> "Fund" @@
    "redemption" :> "Redemption" @@ "investment" :> "Investment" @@
    "family" :> "Family" @@ "of" :> "Of" @@ "last" :> "Last" @@
    "asset" :> "Asset" @@ "assets" :> "Assets" @@ "offer" :> "Offer" @@
    "expense" :> "Expense" @@ "ratio" :> "Ratio" @@ "cutoff" :> "Cutoff" @@
    "charge" :> "Charge" @@ "ira" :> "Ira" @@ "inception" :> "Inception" @@
    "annual" :> "Annual" @@ "returns" :> "Returns" @@
    "current" :> "Current" @@ "yield" :> "Yield" @@ "total" :> "Total" @@
    "return" :> "Return" @@ "average" :> "Average" @@
    "maturity" :> "Maturity" @@ "yr" :> "Yr" @@ "low" :> "Low" @@
    "hi" :> "Hi" @@ "since" :> "Since" @@ "as" :> "As" @@ "star" :> "Star" @@
    "category" :> "Category" @@ "early" :> "Early" @@ "sales" :> "Sales" @@
    "load" :> "Load" @@ "changes" :> "Changes" @@ "code" :> "Code" @@ "security" :> "Security" @@
    "percent" :> "Percent" @@ "front" :> "Front" @@ "end" :> "End" @@
    "values" :> "Values" @@ "duration" :> "Duration" @@
    "trailing" :> "Trailing" @@ "performance" :> "Performance" @@
    "b1" :> "B1" @@ "y" :> "Y" @@ "m" :> "M" @@ "ytd" :> "Ytd" @@
    "1" :> "1" @@ "3" :> "3" @@ "5" :> "5" @@ "6" :> "6" @@ "10" :> "10" @@
    "12" :> "12" @@ "52" :> "52"

\* #[serde(rename_all = "camelCase")]: the first word as written, every
\* later word capitalized, underscores dropped
RECURSIVE PascalCase(_)
PascalCase(w) ==
    IF w = <<>> THEN "" ELSE Capitalize[w[1]] \o PascalCase(Tail(w))

camelCase(w) == w[1] \o PascalCase(Tail(w))

\* without rename_all: the identifier itself is the key
WireKey_snake_case(fld) == IF fld.rename # "" THEN fld.rename ELSE fld.name

\* the JSON key a field is read from: its rename attribute, else the
\* container's rename_all rule applied to its identifier
WireKey(fld) == IF fld.rename # "" THEN fld.rename ELSE camelCase(fld.w)

(* --------------------------- the type tree ---------------------------- *)
\* Every struct below is #[derive(Deserialize)] with
\* #[serde(rename_all = "camelCase", default)]; fields in declaration order.
Fields_QuoteResponse ==
    << R(<<"quote","data">>, "QuoteData", Vec(Struct("QuoteData"))),
       F(<<"messages">>, Struct("Messages")) >>

Fields_OptionExpireDateResponse ==
    << R(<<"expiration","dates">>, "ExpirationDate", Vec(Struct("ExpirationDate"))),
       F(<<"messages">>, Struct("Messages")) >>

Fields_ExpirationDate ==
    << F(<<"year">>, T_i32),
       F(<<"month">>, T_i32),
       F(<<"day">>, T_i32),
       F(<<"expiry","type">>, Opt(T_String)) >>

Fields_QuoteData ==
    << R(<<"all">>, "All", Opt(Struct("AllQuoteDetails"))),
       F(<<"date","time">>, Opt(T_String)),
       R(<<"date","time","utc">>, "dateTimeUTC", Opt(T_i64)),
       F(<<"quote","status">>, Opt(T_String)),
       W(<<"ah","flag">>, Opt(T_bool), "deserialize_ah_flag"),
       F(<<"error","message">>, Opt(T_String)),
       F(<<"fundamental">>, Opt(Struct("FundamentalQuoteDetails"))),
       F(<<"intraday">>, Opt(Struct("IntraQuoteDetails"))),
       F(<<"option">>, Opt(Struct("OptionQuoteDetails"))),
       R(<<"product">>, "Product", Opt(Struct("Product"))),
       F(<<"week52">>, Opt(Struct("Week52QuoteDetails"))),
       R(<<"mutual","fund">>, "MutualFund", Opt(Struct("MutualFund"))),
       F(<<"time","zone">>, Opt(T_String)),
       F(<<"dst","flag">>, Opt(T_bool)),
       F(<<"has","mini","options">>, Opt(T_bool)) >>

Fields_AllQuoteDetails ==
    << F(<<"ask">>, Opt(T_f64)),
       F(<<"bid">>, Opt(T_f64)),
       F(<<"last","trade">>, Opt(T_f64)),
       F(<<"company","name">>, Opt(T_String)),
       F(<<"high">>, Opt(T_f64)),
       F(<<"low">>, Opt(T_f64)),
       F(<<"open">>, Opt(T_f64)),
       F(<<"previous","close">>, Opt(T_f64)),
       F(<<"total","volume">>, Opt(T_i64)),
       F(<<"change","close">>, Opt(T_f64)),
       F(<<"change","close","percentage">>, Opt(T_f64)),
       F(<<"days","to","expiration">>, Opt(T_i64)),
       F(<<"open","interest">>, Opt(T_i64)),
       F(<<"option","style">>, Opt(T_String)),
       F(<<"option","underlier">>, Opt(T_String)),
       F(<<"intrinsic","value">>, Opt(T_f64)),
       F(<<"time","premium">>, Opt(T_f64)),
       F(<<"option","multiplier">>, Opt(T_f64)),
       F(<<"contract","size">>, Opt(T_f64)),
       F(<<"expiration","date">>, Opt(T_i64)),
       F(<<"delta">>, Opt(T_f64)),
       F(<<"gamma">>, Opt(T_f64)),
       F(<<"theta">>, Opt(T_f64)),
       F(<<"vega">>, Opt(T_f64)),
       F(<<"implied","volatility">>, Opt(T_f64)) >>

Fields_FundamentalQuoteDetails ==
    << F(<<"company","name">>, Opt(T_String)),
       F(<<"eps">>, Opt(T_f64)),
       F(<<"est","earnings">>, Opt(T_f64)),
       F(<<"high52">>, Opt(T_f64)),
       F(<<"last","trade">>, Opt(T_f64)),
       F(<<"low52">>, Opt(T_f64)),
       F(<<"symbol","description">>, Opt(T_String)),
       F(<<"volume","10","day">>, Opt(T_i64)) >>

Fields_IntraQuoteDetails ==
    << F(<<"ask">>, Opt(T_f64)),
       F(<<"bid">>, Opt(T_f64)),
       F(<<"change","close">>, Opt(T_f64)),
       F(<<"change","close","percentage">>, Opt(T_f64)),
       F(<<"company","name">>, Opt(T_String)),
       F(<<"high">>, Opt(T_f64)),
       F(<<"last","trade">>, Opt(T_f64)),
       F(<<"low">>, Opt(T_f64)),
       F(<<"total","volume">>, Opt(T_i64)) >>

Fields_OptionQuoteDetails ==
    << F(<<"ask">>, Opt(T_f64)),
       F(<<"ask","size">>, Opt(T_i64)),
       F(<<"bid">>, Opt(T_f64)),
       F(<<"bid","size">>, Opt(T_i64)),
       F(<<"company","name">>, Opt(T_String)),
       F(<<"days","to","expiration">>, Opt(T_i64)),
       F(<<"last","trade">>, Opt(T_f64)),
       F(<<"open","interest">>, Opt(T_i64)),
       F(<<"option","previous","bid","price">>, Opt(T_f64)),
       F(<<"option","previous","ask","price">>, Opt(T_f64)),
       F(<<"osi","key">>, Opt(T_String)),
       F(<<"intrinsic","value">>, Opt(T_f64)),
       F(<<"time","premium">>, Opt(T_f64)),
       F(<<"option","multiplier">>, Opt(T_f64)),
       F(<<"contract","size">>, Opt(T_f64)),
       F(<<"symbol","description">>, Opt(T_String)),
       R(<<"option","greeks">>, "OptionGreeks", Opt(Struct("OptionGreeks"))) >>

Fields_OptionGreeks ==
    << F(<<"rho">>, Opt(T_f64)),
       F(<<"vega">>, Opt(T_f64)),
       F(<<"theta">>, Opt(T_f64)),
       F(<<"delta">>, Opt(T_f64)),
       F(<<"gamma">>, Opt(T_f64)),
       F(<<"iv">>, Opt(T_f64)),
       F(<<"current","value">>, Opt(T_bool)) >>

Fields_Week52QuoteDetails ==
    << F(<<"annual","dividend">>, Opt(T_f64)),
       F(<<"company","name">>, Opt(T_String)),
       F(<<"high52">>, Opt(T_f64)),
       F(<<"last","trade">>, Opt(T_f64)),
       F(<<"low52">>, Opt(T_f64)),
       F(<<"perf","12","months">>, Opt(T_f64)),
       F(<<"previous","close">>, Opt(T_f64)),
       F(<<"symbol","description">>, Opt(T_String)),
       F(<<"total","volume">>, Opt(T_i64)) >>

Fields_MutualFund ==
    << F(<<"symbol","description">>, Opt(T_String)),
       F(<<"cusip">>, Opt(T_String)),
       F(<<"change","close">>, Opt(T_f64)),
       F(<<"previous","close">>, Opt(T_f64)),
       F(<<"transaction","fee">>, Opt(T_f64)),
       F(<<"early","redemption","fee">>, Opt(T_String)),
       F(<<"availability">>, Opt(T_String)),
       F(<<"initial","investment">>, Opt(T_f64)),
       F(<<"subsequent","investment">>, Opt(T_f64)),
       F(<<"fund","family">>, Opt(T_String)),
       F(<<"fund","name">>, Opt(T_String)),
       F(<<"change","close","percentage">>, Opt(T_f64)),
       F(<<"time","of","last","trade">>, Opt(T_i64)),
       F(<<"net","asset","value">>, Opt(T_f64)),
       F(<<"public","offer","price">>, Opt(T_f64)),
       F(<<"net","expense","ratio">>, Opt(T_f64)),
       F(<<"gross","expense","ratio">>, Opt(T_f64)),
       F(<<"order","cutoff","time">>, Opt(T_i64)),
       F(<<"sales","charge">>, Opt(T_String)),
       F(<<"initial","ira","investment">>, Opt(T_f64)),
       F(<<"subsequent","ira","investment">>, Opt(T_f64)),
       F(<<"net","assets">>, Opt(Struct("NetAsset"))),
       F(<<"fund","inception","date">>, Opt(T_i64)),
       F(<<"average","annual","returns">>, Opt(T_f64)),
       F(<<"seven","day","current","yield">>, Opt(T_f64)),
       F(<<"annual","total","return">>, Opt(T_f64)),
       F(<<"weighted","average","maturity">>, Opt(T_f64)),
       F(<<"average","annual","returns","1","yr">>, Opt(T_f64)),
       F(<<"average","annual","returns","3","yr">>, Opt(T_f64)),
       F(<<"average","annual","returns","5","yr">>, Opt(T_f64)),
       F(<<"average","annual","returns","10","yr">>, Opt(T_f64)),
       F(<<"high52">>, Opt(T_f64)),
       F(<<"low52">>, Opt(T_f64)),
       F(<<"week","52","low","date">>, Opt(T_i64)),
       F(<<"week","52","hi","date">>, Opt(T_i64)),
       F(<<"exchange","name">>, Opt(T_String)),
       F(<<"since","inception">>, Opt(T_f64)),
       F(<<"quarterly","since","inception">>, Opt(T_f64)),
       F(<<"last","trade">>, Opt(T_f64)),
       R(<<"actual","12b1","fee">>, "actual12B1Fee", Opt(T_f64)),
       F(<<"performance","as","of","date">>, Opt(T_String)),
       F(<<"qtrly","performance","as","of","date">>, Opt(T_String)),
       F(<<"redemption">>, Opt(Struct("Redemption"))),
       F(<<"morning","star","category">>, Opt(T_String)),
       R(<<"monthly","trailing","return","1y">>, "monthlyTrailingReturn1Y", Opt(T_f64)),
       R(<<"monthly","trailing","return","3y">>, "monthlyTrailingReturn3Y", Opt(T_f64)),
       R(<<"monthly","trailing","return","5y">>, "monthlyTrailingReturn5Y", Opt(T_f64)),
       R(<<"monthly","trailing","return","10y">>, "monthlyTrailingReturn10Y", Opt(T_f64)),
       F(<<"etrade","early","redemption","fee">>, Opt(T_String)),
       F(<<"max","sales","load">>, Opt(T_f64)),
       R(<<"monthly","trailing","return","ytd">>, "monthlyTrailingReturnYTD", Opt(T_f64)),
       R(<<"monthly","trailing","return","1m">>, "monthlyTrailingReturn1M", Opt(T_f64)),
       R(<<"monthly","trailing","return","3m">>, "monthlyTrailingReturn3M", Opt(T_f64)),
       R(<<"monthly","trailing","return","6m">>, "monthlyTrailingReturn6M", Opt(T_f64)),
       R(<<"qtrly","trailing","return","ytd">>, "qtrlyTrailingReturnYTD", Opt(T_f64)),
       R(<<"qtrly","trailing","return","1m">>, "qtrlyTrailingReturn1M", Opt(T_f64)),
       R(<<"qtrly","trailing","return","3m">>, "qtrlyTrailingReturn3M", Opt(T_f64)),
       R(<<"qtrly","trailing","return","6m">>, "qtrlyTrailingReturn6M", Opt(T_f64)),
       F(<<"deferred","sales","changes">>, Vec(Struct("SaleChargeValues"))),
       F(<<"frontend","sales","changes">>, Vec(Struct("SaleChargeValues"))),
       F(<<"exchange","code">>, Opt(T_String)) >>

Fields_NetAsset ==
    << F(<<"value">>, Opt(T_f64)),
       F(<<"as","of","date">>, Opt(T_i64)) >>

Fields_Redemption ==
    << F(<<"min","month">>, Opt(T_String)),
       F(<<"fee","percent">>, Opt(T_String)),
       F(<<"is","front","end">>, Opt(T_String)),
       F(<<"front","end","values">>, Vec(Struct("Values"))),
       F(<<"redemption","duration","type">>, Opt(T_String)),
       F(<<"is","sales">>, Opt(T_String)),
       F(<<"sales","duration","type">>, Opt(T_String)),
       F(<<"sales","values">>, Vec(Struct("Values"))) >>

Fields_Values ==
    << F(<<"low">>, Opt(T_String)),
       F(<<"high">>, Opt(T_String)),
       F(<<"percent">>, Opt(T_String)) >>

Fields_SaleChargeValues ==
    << F(<<"lowhigh">>, Opt(T_String)),
       F(<<"percent">>, Opt(T_String)) >>

\* crate::Messages, the provider's message container (defined outside
\* market.rs): a list of messages under the key "Message", there when the
\* key is absent
Fields_Messages ==
    << R(<<"message">>, "Message", Vec(Struct("Message"))) >>

\* one provider message (defined outside market.rs): free-form attributes
Fields_Message ==
    << F(<<"description">>, Opt(T_String)),
       F(<<"code">>, Opt(T_i64)),
       F(<<"type">>, Opt(T_String)) >>

\* crate::Product, the product identity of a record (defined outside
\* market.rs)
Fields_Product ==
    << F(<<"symbol">>, Opt(T_String)),
       F(<<"security","type">>, Opt(T_String)) >>

Fields(name) ==
    CASE name = "QuoteResponse" -> Fields_QuoteResponse
      [] name = "OptionExpireDateResponse" -> Fields_OptionExpireDateResponse
      [] name = "ExpirationDate" -> Fields_ExpirationDate
      [] name = "QuoteData" -> Fields_QuoteData
      [] name = "AllQuoteDetails" -> Fields_AllQuoteDetails
      [] name = "FundamentalQuoteDetails" -> Fields_FundamentalQuoteDetails
      [] name = "IntraQuoteDetails" -> Fields_IntraQuoteDetails
      [] name = "OptionQuoteDetails" -> Fields_OptionQuoteDetails
      [] name = "OptionGreeks" -> Fields_OptionGreeks
      [] name = "Week52QuoteDetails" -> Fields_Week52QuoteDetails
      [] name = "MutualFund" -> Fields_MutualFund
      [] name = "NetAsset" -> Fields_NetAsset
      [] name = "Redemption" -> Fields_Redemption
      [] name = "Values" -> Fields_Values
      [] name = "SaleChargeValues" -> Fields_SaleChargeValues
      [] name = "Messages" -> Fields_Messages
      [] name = "Message" -> Fields_Message
      [] name = "Product" -> Fields_Product

(* ------------------------ derived Deserialize ------------------------- *)
RECURSIVE Default(_)
\* Default::default() of a field type (#[derive(Default)])
Default(ty) ==
    CASE ty.k = "Option" -> None
      [] ty.k = "Vec" -> <<>>
      [] ty.k \in {"f64", "i64", "i32"} -> 0
      [] ty.k = "String" -> <<>>
      [] ty.k = "bool" -> FALSE
      [] ty.k = "Struct" ->
            LET fs == Fields(ty.name) IN
            [n \in {fs[i].name : i \in 1..Len(fs)} |->
                LET i == CHOOSE i \in 1..Len(fs) : fs[i].name = n
                IN Default(fs[i].ty)]

\* without #[serde(default)] on the struct: only a plain Option field may
\* be left out
MissingField_no_default(fld) ==
    IF fld.ty.k = "Option" /\ fld.with = ""
    THEN Ok(None)
    ELSE Err([msg |-> "missing field", field |-> fld.name])

\* a field whose key the input lacks: #[serde(default)] on the struct
\* leaves it at the struct's Default
MissingField(fld) == Ok(Default(fld.ty))

InvalidType(ty) == Err([msg |-> "invalid type", expected |-> ty.k])

RECURSIVE Deserialize(_, _)
\* serde_json::from_value::<ty>(v).  A struct reads an object by key
\* (unknown keys skipped, absent keys left at the struct's default) or an
\* array by position.  The error of a struct with several failing fields
\* is taken from the first of them in declaration order; the documents
\* below carry at most one failing field per object, so the choice never
\* shows.  Integers stay far inside i32, so the range checks of i32 and
\* i64 never fail.
Deserialize(ty, v) ==
    CASE ty.k = "f64" -> IF v.t = "num" THEN Ok(v.n) ELSE InvalidType(ty)
      [] ty.k \in {"i64", "i32"} ->
            IF v.t = "num" /\ ~v.float THEN Ok(v.n) ELSE InvalidType(ty)
      [] ty.k = "String" -> IF v.t = "str" THEN Ok(v.s) ELSE InvalidType(ty)
      [] ty.k = "bool" -> IF v.t = "bool" THEN Ok(v.b) ELSE InvalidType(ty)
      [] ty.k = "Option" ->
            IF v.t = "null" THEN Ok(None)
            ELSE LET r == Deserialize(ty.of, v) IN
                 IF r.ok THEN Ok(Some(r.v)) ELSE r
      [] ty.k = "Vec" ->
            IF v.t # "arr" THEN InvalidType(ty)
            ELSE LET res == [i \in 1..Len(v.a) |-> Deserialize(ty.of, v.a[i])]
                     bad == {i \in 1..Len(v.a) : ~res[i].ok}
                 IN IF bad = {}
                    THEN Ok([i \in 1..Len(v.a) |-> res[i].v])
                    ELSE res[CHOOSE i \in bad : \A j \in bad : i <= j]
      [] ty.k = "Struct" ->
            IF v.t \notin {"obj", "arr"} THEN InvalidType(ty)
            ELSE LET fs == Fields(ty.name)
                     Field(i, x) ==
                         IF fs[i].with = "deserialize_ah_flag"
                         THEN deserialize_ah_flag(x)
                         ELSE Deserialize(fs[i].ty, x)
                     res == [i \in 1..Len(fs) |->
                               IF v.t = "obj"
                               THEN IF WireKey(fs[i]) \in DOMAIN v.o
                                    THEN Field(i, v.o[WireKey(fs[i])])
                                    ELSE MissingField(fs[i])
                               ELSE IF i <= Len(v.a)
                                    THEN Field(i, v.a[i])
                                    ELSE MissingField(fs[i])]
                     bad == {i \in 1..Len(fs) : ~res[i].ok}
                 IN IF bad # {}
                    THEN res[CHOOSE i \in bad : \A j \in bad : i <= j]
                    ELSE IF v.t = "arr" /\ Len(v.a) > Len(fs)
                    THEN Err([msg |-> "invalid length"])
                    ELSE Ok([n \in {fs[i].name : i \in 1..Len(fs)} |->
                               LET i == CHOOSE i \in 1..Len(fs) :
                                            fs[i].name = n
                               IN res[i].v])

\* Messages::is_empty (defined outside market.rs)
is_empty(messages) == messages.message = <<>>

(* ----------------------------- requests ------------------------------ *)
\* the cap of Api::quote
MaxSymbols == 25

\* a join that drops the symbols it has already written
RECURSIVE join_dedup(_, _)
join_dedup(list, sep) ==
    IF list = <<>> THEN <<>>
    ELSE LET rest == SelectSeq(Tail(list), LAMBDA x : x # list[1]) IN
         IF rest = <<>> THEN list[1]
         ELSE list[1] \o sep \o join_dedup(rest, sep)

\* [&str]::join(sep): the items in order, sep between neighbours
RECURSIVE join(_, _)
join(list, sep) ==
    IF list = <<>> THEN <<>>
    ELSE IF Len(list) = 1 THEN list[1]
    ELSE list[1] \o sep \o join(Tail(list), sep)

\* "/v1/market/quote/"
QuotePrefix == <<"/","v","1","/","m","a","r","k","e","t","/","q","u","o","t","e","/">>
\* "/v1/market/optionexpiredate"
ExpirePrefix == <<"/","v","1","/","m","a","r","k","e","t","/",
                  "o","p","t","i","o","n","e","x","p","i","r","e","d","a","t","e">>

\* GetQuotesRequest::default(): every option left to the provider
GetQuotesRequest_default ==
    [detail_flag |-> None, require_earnings_date |-> None,
     override_symbol_count |-> None, skip_mini_options_check |-> None]

\* Option::unwrap_or_default
unwrap_or_default(params) ==
    IF params.some THEN params.v ELSE GetQuotesRequest_default

\* crate::qs_params (defined outside market.rs): the set fields of the
\* request as (name, value) pairs, unset ones omitted
qs_params(req, names) ==
    LET RECURSIVE Pairs(_)
        Pairs(i) ==
            IF i > Len(names) THEN <<>>
            ELSE (IF req[names[i][1]].some
                  THEN << <<names[i][2], req[names[i][1]].v>> >>
                  ELSE <<>>) \o Pairs(i + 1)
    IN Pairs(1)

GetQuotesRequest_names ==
    << <<"detail_flag", "detailFlag">>,
       <<"require_earnings_date", "requireEarningsDate">>,
       <<"override_symbol_count", "overrideSymbolCount">>,
       <<"skip_mini_options_check", "skipMiniOptionsCheck">> >>

GetOptionExpireDatesRequest_names ==
    << <<"symbol", "symbol">>, <<"expiry_type", "expiryType">> >>

(* ------------------------------- state -------------------------------- *)
VARIABLES
    pc,       \* "idle", "awaiting" (inside session.send), "returned", "panicked"
    op,       \* the call in progress: "none", "quote", "option_expire_dates"
    symbols,  \* quote's symbols argument
    params,   \* the params argument
    sent,     \* the requests handed to session.send by this call
    val,      \* the document session.send returned
    result    \* the Result returned to the caller

vars == <<pc, op, symbols, params, sent, val, result>>

NoResult == [pending |-> TRUE]
NoVal == [t |-> "none"]

Init ==
    /\ pc = "idle"
    /\ op = "none"
    /\ symbols = <<>>
    /\ params = None
    /\ sent = <<>>
    /\ val = NoVal
    /\ result = NoResult

\* the cap applied one too early
OverCap_off_by_one(syms) == Len(syms) >= MaxSymbols

\* the guard of Api::quote: symbols.len() > 25
OverCap(syms) == Len(syms) > MaxSymbols

\* Api::quote up to the await of session.send (qs_params does not fail on
\* a GetQuotesRequest)
quote(syms, prm) ==
    /\ pc = "idle"
    /\ op' = "quote"
    /\ symbols' = syms
    /\ params' = prm
    /\ val' = NoVal
    /\ IF OverCap(syms)
       THEN /\ result' = Err([msg |-> "Maximum of 25 symbols allowed"])
            /\ sent' = <<>>
            /\ pc' = "returned"
       ELSE /\ sent' = << [method |-> "GET",
                           path |-> QuotePrefix \o join(syms, <<",">>),
                           query |-> qs_params(unwrap_or_default(prm),
                                               GetQuotesRequest_names)] >>
            /\ result' = NoResult
            /\ pc' = "awaiting"

\* Api::option_expire_dates up to the await of session.send
option_expire_dates(prm) ==
    /\ pc = "idle"
    /\ op' = "option_expire_dates"
    /\ symbols' = <<>>
    /\ params' = prm
    /\ val' = NoVal
    /\ sent' = << [method |-> "GET",
                   path |-> ExpirePrefix,
                   query |-> IF prm.some
                             THEN qs_params(prm.v, GetOptionExpireDatesRequest_names)
                             ELSE <<>>] >>
    /\ result' = NoResult
    /\ pc' = "awaiting"

\* val.get(envelope).unwrap() followed by serde_json::from_value: a
\* document without the envelope key panics in unwrap
Decode(envelope, name, doc) ==
    IF ~HasKey(doc, envelope)
    THEN [panic |-> TRUE]
    ELSE [panic |-> FALSE, r |-> Deserialize(Struct(name), doc.o[envelope])]

\* the end of a call: a panic leaves the caller without a result
Finish(d) ==
    IF d.panic
    THEN pc' = "panicked" /\ result' = NoResult
    ELSE pc' = "returned" /\ result' = d.r

\* the rest of Api::quote once session.send has returned Ok(doc)
quote_resume(doc) ==
    /\ pc = "awaiting"
    /\ op = "quote"
    /\ val' = doc
    /\ Finish(Decode("QuoteResponse", "QuoteResponse", doc))
    /\ UNCHANGED <<op, symbols, params, sent>>

\* the rest of Api::option_expire_dates once session.send has returned
\* Ok(doc)
option_expire_dates_resume(doc) ==
    /\ pc = "awaiting"
    /\ op = "option_expire_dates"
    /\ val' = doc
    /\ Finish(Decode("OptionExpireDateResponse", "OptionExpireDateResponse", doc))
    /\ UNCHANGED <<op, symbols, params, sent>>

\* session.send returned Err: the ? operator hands it to the caller
send_failed ==
    /\ pc = "awaiting"
    /\ pc' = "returned"
    /\ result' = Err([msg |-> "transport"])
    /\ UNCHANGED <<op, symbols, params, sent, val>>

\* the call is over; the next one starts from nothing
next_call ==
    /\ pc \in {"returned", "panicked"}
    /\ pc' = "idle"
    /\ op' = "none"
    /\ symbols' = <<>>
    /\ params' = None
    /\ sent' = <<>>
    /\ val' = NoVal
    /\ result' = NoResult

(* ------------------------------ inputs -------------------------------- *)
\* longest QuoteData / ExpirationDate array built from a pool
MaxRecords == 2
\* longest Message array
MaxMessages == 2

SeqsUpTo(pool, n) == UNION {[1..k -> pool] : k \in 0..n}

\* symbols: "A", "BK", "C"
SymbolPool == << <<"A">>, <<"B","K">>, <<"C">> >>

\* the list of n symbols whose i-th entry is SymbolPool[(a*i + b) mod 3]:
\* constant lists (a = 0, all duplicates), ascending and descending cycles
SymbolList(n, a, b) ==
    [i \in 1..n |-> SymbolPool[((a * i + b) % Len(SymbolPool)) + 1]]

LongSymbolLists == {SymbolList(n, a, b) : n \in 0..MaxLen, a \in 0..2, b \in 0..2}
ShortSymbolLists == {SymbolList(2, 2, 0)}

QuoteParams ==
    { None,
      Some(GetQuotesRequest_default),
      Some([GetQuotesRequest_default EXCEPT !.detail_flag = Some("FUNDAMENTAL"),
                                            !.require_earnings_date = Some(TRUE)]) }

ExpireParams ==
    { None,
      Some([symbol |-> Some(<<"A">>), expiry_type |-> None]),
      Some([symbol |-> Some(<<"A">>), expiry_type |-> Some("WEEKLY")]) }

to_uppercase_char(c) ==
    IF \E i \in 1..Len(Lowers) : Lowers[i] = c
    THEN Uppers[CHOOSE i \in 1..Len(Lowers) : Lowers[i] = c]
    ELSE c

\* every upper/lower-case spelling of a word
RECURSIVE Spellings(_)
Spellings(w) ==
    IF w = <<>> THEN {<<>>}
    ELSE {<<c>> \o r : c \in {w[1], to_uppercase_char(w[1])}, r \in Spellings(Tail(w))}

TrueWords == {W_true, W_1, W_yes}
FalseWords == {W_false, W_0, W_no}

\* strings that spell none of the six words
OtherStrings ==
    { <<>>, <<"m","a","y","b","e">>, <<"2">>, <<"o","n">>, <<"o","f","f">>,
      <<"t">>, <<"y">>, <<"n">>, <<"t","r","u">>, <<"t","r","u","e","e">>,
      <<" ","t","r","u","e">>, <<"n","o"," ">>, <<"1","0">>, <<"T","R","U","E","1">> }

AhStrings == UNION {Spellings(w) : w \in TrueWords \cup FalseWords} \cup OtherStrings

\* the values an after-hours flag arrives as
AhValues ==
    {JBool(TRUE), JBool(FALSE), JNull, JInt(0), JInt(1), JFloat(1),
     JArr(<<>>), JArr(<<JBool(TRUE)>>), EmptyObj}
    \cup {JStr(s) : s \in AhStrings}

Txt_TC == <<"T","C">>
Txt_time == <<"1","2",":","0","0">>

\* the All block of the unit tests: companyName and lastTrade only
BaseAll == JObj("companyName" :> JStr(Txt_TC) @@ "lastTrade" :> JFloat(100))

\* the record of test_quote_response_with_missing_fields
MinimalRecord ==
    JObj("All" :> BaseAll @@ "dateTime" :> JStr(Txt_time)
         @@ "dateTimeUTC" :> JInt(1704067200))

AhRecords == {JObj("ahFlag" :> v @@ MinimalRecord.o) : v \in AhValues}

\* the six detail blocks by the names the provider gives them
SubRecordNames == {"All", "Fundamental", "Intraday", "Option", "Week52", "MutualFund"}

SubValue(k) ==
    CASE k = "All" -> BaseAll
      [] k = "Fundamental" -> JObj("eps" :> JFloat(1) @@ "volume10Day" :> JInt(7))
      [] k = "Intraday" -> JObj("ask" :> JFloat(2))
      [] k = "Option" -> JObj("askSize" :> JInt(3)
                              @@ "OptionGreeks" :> JObj("rho" :> JFloat(1)))
      [] k = "Week52" -> JObj("high52" :> JFloat(3))
      [] k = "MutualFund" ->
            JObj("netAssets" :> JObj("value" :> JFloat(5))
                 @@ "redemption" :> JObj("frontEndValues" :>
                        JArr(<<JObj("low" :> JStr(<<"1">>))>>))
                 @@ "actual12B1Fee" :> JFloat(1))

Txt_err == <<"e","r","r">>

SubsetRecords ==
    {JObj([k \in S |-> SubValue(k)]
          @@ (IF e THEN "errorMessage" :> JStr(Txt_err) ELSE <<>>))
        : S \in SUBSET SubRecordNames, e \in BOOLEAN}

\* detail blocks under the lower-case keys
LowerKeyOf(k) ==
    CASE k = "Fundamental" -> "fundamental" [] k = "Intraday" -> "intraday"
      [] k = "Option" -> "option" [] k = "Week52" -> "week52"

LowerRecords ==
    {JObj([k \in {LowerKeyOf(n) : n \in S} |->
             SubValue(CHOOSE n \in S : LowerKeyOf(n) = k)])
        : S \in (SUBSET {"Fundamental", "Intraday", "Option", "Week52"}) \ {{}}}

\* scalar slots of a record: where it sits, a well-typed value, a value of
\* the wrong JSON type
Slots ==
    << [in |-> "All", key |-> "ask", good |-> JFloat(11), bad |-> JStr(<<"1","1">>)],
       [in |-> "All", key |-> "bid", good |-> JInt(10), bad |-> JBool(TRUE)],
       [in |-> "All", key |-> "totalVolume", good |-> JInt(500), bad |-> JFloat(500)],
       [in |-> "", key |-> "dateTimeUTC", good |-> JInt(1704067200),
                                        bad |-> JStr(<<"1","7">>)],
       [in |-> "", key |-> "quoteStatus", good |-> JStr(<<"R">>), bad |-> JInt(1)],
       [in |-> "", key |-> "hasMiniOptions", good |-> JBool(FALSE),
                                           bad |-> JStr(W_false)] >>

\* the record whose slot i carries pick[i]: "absent", "good", "null" or "bad"
SlotRecord(pick) ==
    LET Put(in) == [k \in {Slots[i].key : i \in {j \in 1..Len(Slots) :
                                   Slots[j].in = in /\ pick[j] # "absent"}} |->
                      LET i == CHOOSE i \in 1..Len(Slots) :
                                   Slots[i].in = in /\ Slots[i].key = k
                      IN CASE pick[i] = "good" -> Slots[i].good
                           [] pick[i] = "null" -> JNull
                           [] pick[i] = "bad" -> Slots[i].bad]
    IN JObj(Put("") @@ "All" :> JObj(Put("All") @@ BaseAll.o))

SlotIdx == 1..Len(Slots)

\* every slot absent or well-typed
WellTypedPicks == [SlotIdx -> {"absent", "good"}]
\* one slot null, the others all present or all absent
NullPicks ==
    {[j \in SlotIdx |-> IF j = i THEN "null" ELSE rest]
        : i \in SlotIdx, rest \in {"absent", "good"}}
\* one slot malformed, the others all present or all absent
MalformedPicks ==
    {[j \in SlotIdx |-> IF j = i THEN "bad" ELSE rest]
        : i \in SlotIdx, rest \in {"absent", "good"}}

WellTypedRecords == {SlotRecord(p) : p \in WellTypedPicks \cup NullPicks}
MalformedRecords == {SlotRecord(p) : p \in MalformedPicks}

Message1 == JObj("description" :> JStr(Txt_err) @@ "code" :> JInt(1019))
Message2 == JObj("description" :> JStr(Txt_TC) @@ "type" :> JStr(<<"W">>))

\* how a response carries its messages: as fields to add to the body
MessagesFields ==
    {<<>>, "Messages" :> EmptyObj}
    \cup {"Messages" :> JObj("Message" :> JArr(m))
            : m \in SeqsUpTo({Message1, Message2}, MaxMessages)}
    \cup {"messages" :> JObj("Message" :> JArr(<<Message2>>))}

\* records that are combined into longer arrays
RecordPool ==
    { MinimalRecord,
      JObj("ahFlag" :> JStr(<<"Y","e","s">>) @@ MinimalRecord.o),
      JObj("Fundamental" :> SubValue("Fundamental")
           @@ "errorMessage" :> JStr(Txt_err)),
      SlotRecord([j \in SlotIdx |-> IF j = 1 THEN "bad" ELSE "good"]) }

QuoteBodies ==
    {JObj("QuoteData" :> JArr(<<r>>))
        : r \in AhRecords \cup SubsetRecords \cup LowerRecords
                \cup WellTypedRecords \cup MalformedRecords}
    \cup {JObj("QuoteData" :> JArr(rs)) : rs \in SeqsUpTo(RecordPool, MaxRecords)}
    \cup {JObj("QuoteData" :> JArr(rs) @@ m)
            : rs \in {<<>>, <<MinimalRecord>>}, m \in MessagesFields}
    \cup {JObj(m) : m \in MessagesFields}

\* documents that lack the envelope or whose envelope is no object
BrokenDocs(envelope) ==
    { EmptyObj, JNull, JArr(<<>>),
      JObj("Error" :> JObj("message" :> JStr(Txt_err))),
      JObj(envelope :> JNull), JObj(envelope :> JArr(<<>>)) }

QuoteDocs == {JObj("QuoteResponse" :> b) : b \in QuoteBodies}
             \cup BrokenDocs("QuoteResponse")

Date1 ==
    JObj("year" :> JInt(2024) @@ "month" :> JInt(1) @@ "day" :> JInt(19)
         @@ "expiryType" :> JStr(<<"W">>))

DatePool ==
    { Date1,
      JObj("year" :> JInt(2024) @@ "month" :> JInt(2) @@ "day" :> JInt(16)),
      JObj("month" :> JInt(3)),
      JObj("year" :> JStr(<<"2","4">>) @@ "month" :> JInt(1) @@ "day" :> JInt(1)) }

ExpireBodies ==
    {JObj("ExpirationDate" :> JArr(ds)) : ds \in SeqsUpTo(DatePool, MaxRecords)}
    \cup {JObj("ExpirationDate" :> JArr(ds) @@ m)
            : ds \in {<<>>, <<Date1>>}, m \in MessagesFields}
    \cup {JObj(m) : m \in MessagesFields}

ExpireDocs == {JObj("OptionExpireDateResponse" :> b) : b \in ExpireBodies}
              \cup BrokenDocs("OptionExpireDateResponse")

\* a handful of documents for the runs that vary the request
FewQuoteDocs ==
    { JObj("QuoteResponse" :> JObj("QuoteData" :> JArr(<<MinimalRecord>>))),
      JObj("QuoteResponse" :> EmptyObj), EmptyObj }
FewExpireDocs ==
    { JObj("OptionExpireDateResponse" :> EmptyObj), EmptyObj }

(* --------------------------- specifications --------------------------- *)
NextOver(SymbolLists, QDocs, EDocs) ==
    \/ \E syms \in SymbolLists, prm \in QuoteParams : quote(syms, prm)
    \/ \E prm \in ExpireParams : option_expire_dates(prm)
    \/ \E doc \in QDocs : quote_resume(doc)
    \/ \E doc \in EDocs : option_expire_dates_resume(doc)
    \/ send_failed
    \/ next_call

\* the requests varied: symbol lists of every length up to MaxLen
Next == NextOver(LongSymbolLists, FewQuoteDocs, FewExpireDocs)
Spec == Init /\ [][Next]_vars

\* the responses varied
NextDecode == NextOver(ShortSymbolLists, QuoteDocs, ExpireDocs)
SpecDecode == Init /\ [][NextDecode]_vars

(* ------------------------------ claims -------------------------------- *)
\* the envelope field of the call in progress
EnvelopeOf(call) ==
    IF call = "quote" THEN "QuoteResponse" ELSE "OptionExpireDateResponse"

\* the call has received a document from the transport and is over
Answered == pc \in {"returned", "panicked"} /\ val # NoVal

\* C1: whenever the document a call received lacks its envelope field, the
\* call returns a MissingEnvelope decode error to its caller (and ends in no
\* other way).
C1_MissingEnvelopeIsReturned ==
    (Answered /\ ~HasKey(val, EnvelopeOf(op)))
        => /\ pc = "returned"
           /\ ~result.ok
           /\ result.err.msg = "MissingEnvelope"

\* the validation error of quote
TooManySymbols == Err([msg |-> "Maximum of 25 symbols allowed"])

\* C2: a quote call with 26 or more symbols has returned the TooManySymbols
\* error and has sent nothing; a quote call with 1 to 25 symbols has passed
\* validation and handed exactly one request to the transport.
C2_SymbolCap ==
    (op = "quote" /\ pc # "idle")
        => /\ Len(symbols) >= 26
                => pc = "returned" /\ result = TooManySymbols /\ sent = <<>>
           /\ Len(symbols) \in 1..25
                => Len(sent) = 1 /\ result # TooManySymbols

C2_Witness ==
    /\ op = "quote" /\ pc = "returned"
    /\ Len(symbols) = 26 /\ result = TooManySymbols /\ sent = <<>>

\* where the i-th symbol starts in the joined segment, counted from 0
RECURSIVE SegmentOffset(_, _)
SegmentOffset(list, i) ==
    IF i = 1 THEN 0 ELSE SegmentOffset(list, i - 1) + Len(list[i - 1]) + 1

\* C8: the path of a dispatched quote request is the prefix followed by the
\* symbols in input order, each one whole and unaltered, every one of them
\* there (duplicates too), with one comma between neighbours and nothing else.
C8_PathKeepsSymbols ==
    (op = "quote" /\ sent # <<>>)
        => LET path == sent[1].path
               n == Len(symbols)
               seg == SubSeq(path, Len(QuotePrefix) + 1, Len(path))
               at(i) == SegmentOffset(symbols, i)
           IN /\ SubSeq(path, 1, Len(QuotePrefix)) = QuotePrefix
              /\ Len(seg) = IF n = 0 THEN 0 ELSE at(n) + Len(symbols[n])
              /\ \A i \in 1..n :
                    SubSeq(seg, at(i) + 1, at(i) + Len(symbols[i])) = symbols[i]
              /\ \A i \in 1..(n - 1) : seg[at(i + 1)] = ","

C8_Witness ==
    /\ op = "quote" /\ pc = "awaiting" /\ sent # <<>>
    /\ Len(symbols) = 25
    /\ symbols[1] = symbols[4] /\ symbols[1] # symbols[2]
    /\ symbols[2] = <<"B","K">> /\ symbols[3] = <<"A">>

\* C9: a quote request that reached the transport carries 1 to 25 symbols.
C9_DispatchedHasSymbols ==
    (op = "quote" /\ sent # <<>>) => Len(symbols) \in 1..25

(* --------------------- claims about the decoding ---------------------- *)
\* the body under the envelope of the document received
Body == val.o[EnvelopeOf(op)]

\* a quote call has received an enveloped body holding a QuoteData array
HasRecords ==
    /\ Answered /\ op = "quote"
    /\ HasKey(val, "QuoteResponse")
    /\ HasKey(Body, "QuoteData")
    /\ Body.o["QuoteData"].t = "arr"

InRecords == Body.o["QuoteData"].a
OutRecords == result.v.quote_data

\* s spells the lower-case word w in some mix of cases
EqIgnoringCase(s, w) ==
    /\ Len(s) = Len(w)
    /\ \A i \in 1..Len(w) : s[i] = w[i] \/ s[i] = to_uppercase_char(w[i])

AhInvalid == [invalid |-> TRUE]

\* what the after-hours flag is to decode to
AhExpected(v) ==
    CASE v.t = "bool" -> Some(v.b)
      [] v.t = "null" -> None
      [] v.t = "str" ->
            IF \E w \in {<<"t","r","u","e">>, <<"1">>, <<"y","e","s">>} :
                  EqIgnoringCase(v.s, w)
            THEN Some(TRUE)
            ELSE IF \E w \in {<<"f","a","l","s","e">>, <<"0">>, <<"n","o">>} :
                  EqIgnoringCase(v.s, w)
            THEN Some(FALSE)
            ELSE AhInvalid
      [] OTHER -> AhInvalid

\* the record apart from its after-hours flag
WithoutAh(rec) == [k \in DOMAIN rec.o \ {"ahFlag"} |-> rec.o[k]]

\* C3: the after-hours flag decodes from native booleans and from the
\* strings true/1/yes and false/0/no in any case to Some(true) / Some(false),
\* from null to None, and from every other string or JSON type to a decode
\* error of the call.
C3_AhFlagCoercion ==
    HasRecords
        => /\ result.ok =>
                \A i \in 1..Len(InRecords) :
                    "ahFlag" \in DOMAIN InRecords[i].o =>
                        /\ AhExpected(InRecords[i].o["ahFlag"]) # AhInvalid
                        /\ OutRecords[i].ah_flag
                               = AhExpected(InRecords[i].o["ahFlag"])
           /\ ( /\ Len(InRecords) = 1
                /\ "ahFlag" \in DOMAIN InRecords[1].o
                /\ WithoutAh(InRecords[1]) = MinimalRecord.o )
                => /\ pc = "returned"
                   /\ result.ok <=> AhExpected(InRecords[1].o["ahFlag"]) # AhInvalid
                   /\ ~result.ok =>
                        result.err.msg \in {"Invalid boolean string",
                                            "Expected boolean or string"}

C3_Witness ==
    /\ HasRecords /\ pc = "returned" /\ result.ok
    /\ Len(InRecords) = 1
    /\ "ahFlag" \in DOMAIN InRecords[1].o
    /\ InRecords[1].o["ahFlag"] = JStr(<<"Y","e","S">>)
    /\ OutRecords[1].ah_flag = Some(TRUE)

\* the value a JSON scalar carries
Payload(v) ==
    CASE v.t = "num" -> v.n [] v.t = "str" -> v.s [] v.t = "bool" -> v.b

\* the field is None when its key is absent (or null), else holds the input
Populated(obj, key, out) ==
    IF key \notin DOMAIN obj \/ obj[key].t = "null"
    THEN out = None
    ELSE out = Some(Payload(obj[key]))

RecordScalars ==
    { <<"dateTime", "date_time">>, <<"dateTimeUTC", "date_time_utc">>,
      <<"quoteStatus", "quote_status">>, <<"errorMessage", "error_message">>,
      <<"timeZone", "time_zone">>, <<"dstFlag", "dst_flag">>,
      <<"hasMiniOptions", "has_mini_options">> }

AllScalars ==
    { <<"ask", "ask">>, <<"bid", "bid">>, <<"lastTrade", "last_trade">>,
      <<"companyName", "company_name">>, <<"totalVolume", "total_volume">>,
      <<"high", "high">>, <<"low", "low">> }

\* the decoded record out mirrors the input record in
RecordMatches(in, out) ==
    /\ \A p \in RecordScalars : Populated(in.o, p[1], out[p[2]])
    /\ "ahFlag" \notin DOMAIN in.o => out.ah_flag = None
    /\ IF "All" \in DOMAIN in.o
       THEN /\ out.all.some
            /\ \A p \in AllScalars : Populated(in.o["All"].o, p[1], out.all.v[p[2]])
       ELSE out.all = None
    /\ out.mutual_fund.some <=> "MutualFund" \in DOMAIN in.o
    /\ out.product.some <=> "Product" \in DOMAIN in.o
    /\ {"Fundamental", "fundamental"} \cap DOMAIN in.o = {} => out.fundamental = None
    /\ {"Intraday", "intraday"} \cap DOMAIN in.o = {} => out.intraday = None
    /\ {"Option", "option"} \cap DOMAIN in.o = {} => out.option = None
    /\ {"Week52", "week52"} \cap DOMAIN in.o = {} => out.week52 = None

\* records in which every value present has the type of its field
WellFormedRecords ==
    WellTypedRecords \cup SubsetRecords \cup LowerRecords \cup {MinimalRecord}

NoMessages(body) ==
    /\ "messages" \notin DOMAIN body.o
    /\ "Messages" \in DOMAIN body.o
          => body.o["Messages"] = JObj("Message" :> JArr(<<>>))

\* C5: a QuoteResponse without a Messages object, or with an empty Message
\* array, decodes; its Messages container is there and empty, and its
\* records are decoded as they would be otherwise.
C5_EmptyMessages ==
    ( /\ Answered /\ op = "quote"
      /\ HasKey(val, "QuoteResponse")
      /\ Body.t = "obj"
      /\ NoMessages(Body) )
        => LET in == IF HasKey(Body, "QuoteData") THEN InRecords ELSE <<>> IN
           /\ (\A i \in 1..Len(in) : in[i] \in WellFormedRecords)
                => pc = "returned" /\ result.ok
           /\ (pc = "returned" /\ result.ok)
                => /\ is_empty(result.v.messages)
                   /\ Len(OutRecords) = Len(in)
                   /\ \A i \in 1..Len(in) : RecordMatches(in[i], OutRecords[i])

\* the document of test_quote_response_empty_messages, with the first
\* test's record
C5_Witness ==
    /\ HasRecords /\ pc = "returned" /\ result.ok
    /\ InRecords = <<MinimalRecord>>
    /\ "Messages" \in DOMAIN Body.o
    /\ Body.o["Messages"] = JObj("Message" :> JArr(<<>>))
    /\ is_empty(result.v.messages)
    /\ Len(OutRecords) = 1

\* C6: one optional field of the wrong JSON type (not the after-hours flag)
\* does not fail the call: the record decodes, with that field None.
C6_MalformedFieldIsNone ==
    (HasRecords /\ Len(InRecords) = 1 /\ InRecords[1] \in MalformedRecords)
        => pc = "returned" /\ result.ok /\ Len(OutRecords) = 1

\* the field a detail block is decoded into
SubRecordField(k) ==
    CASE k = "All" -> "all" [] k = "Fundamental" -> "fundamental"
      [] k = "Intraday" -> "intraday" [] k = "Option" -> "option"
      [] k = "Week52" -> "week52" [] k = "MutualFund" -> "mutual_fund"

\* C7: whichever of the six detail blocks a record carries under the names
\* All, Fundamental, Intraday, Option, Week52, MutualFund, with or without an
\* inline error message, the decoded record has exactly those blocks.
C7_SubRecordsAsGiven ==
    (HasRecords /\ Len(InRecords) = 1 /\ InRecords[1] \in SubsetRecords)
        => /\ pc = "returned" /\ result.ok
           /\ \A k \in SubRecordNames :
                OutRecords[1][SubRecordField(k)].some
                    <=> k \in DOMAIN InRecords[1].o

\* C10: messages the provider sends in the Messages object of the envelope
\* are in the decoded result's Messages container.
C10_MessagesAreKept ==
    ( /\ Answered /\ pc = "returned" /\ result.ok
      /\ HasKey(val, EnvelopeOf(op))
      /\ HasKey(Body, "Messages")
      /\ HasKey(Body.o["Messages"], "Message")
      /\ Body.o["Messages"].o["Message"].t = "arr"
      /\ Body.o["Messages"].o["Message"].a # <<>> )
        => ~is_empty(result.v.messages)

====
